---------------------------- MODULE Spec2Model ----------------------------
(*
 * zzuf launcher (src/src/myfork.c): myfork, mypipe, run_process on the
 * fork build (HAVE_FORK) and on the suspended-create build (HAVE_WINDOWS_H),
 * and dll_inject.
 *
 * The two builds are specifications over the same variables:
 *   SpecFork     myfork + run_process with fork(), parent and child sides,
 *                over the descriptor layouts of the harness
 *   SpecSetup    the same, over the options, environments and files
 *   SpecWin      myfork + run_process with CreateProcess() + dll_inject
 *   SpecResolve  the same, over the export tables get_proc_address scans
 *)
EXTENDS Integers, Sequences, FiniteSets, TLC

(***************************************************************************)
(* Bounds of the model                                                     *)
(***************************************************************************)
\* descriptor numbers 0..MaxFd exist, and the well-known ones
MaxFd == 8
\* process ids fork() may return to the parent: 1..MaxPid
MaxPid == 2

(***************************************************************************)
(* Program constants                                                       *)
(***************************************************************************)
STDOUT_FILENO == 1
STDERR_FILENO == 2
\* used at myfork.c:249; the value is set in common.h
DEBUG_FILENO == 17
EXIT_SUCCESS == 0
EXIT_FAILURE == 1

\* static int const fds[] = { DEBUG_FILENO, STDERR_FILENO, STDOUT_FILENO };
fds == [j \in 0..2 |-> CASE j = 0 -> DEBUG_FILENO
                         [] j = 1 -> STDERR_FILENO
                         [] j = 2 -> STDOUT_FILENO]

FdNums == (0..MaxFd) \cup {DEBUG_FILENO, STDERR_FILENO, STDOUT_FILENO}

(***************************************************************************)
(* Descriptor tables.  A descriptor number is closed, refers to a file the *)
(* harness had open before the launch, or refers to one end of channel ch  *)
(* (end 0 = read end, end 1 = write end, as in pipefd[0] / pipefd[1]).     *)
(***************************************************************************)
CLOSED == [ch |-> -1, end |-> -1]
INHERITED == [ch |-> -2, end |-> -2]
PipeEnd(c, e) == [ch |-> c, end |-> e]
Descs == {CLOSED, INHERITED} \cup {PipeEnd(c, e) : c \in 0..2, e \in 0..1}

\* close(fd): EBADF and no effect when fd is not open (or is not a number
\* of the table, as the -1 of a failed call)
Close(tab, fd) == IF fd \in DOMAIN tab THEN [tab EXCEPT ![fd] = CLOSED] ELSE tab

\* dup2(old, new): EBADF and no effect when old is not open; otherwise new
\* is silently closed first and then refers to what old refers to
Dup2(tab, old, new) ==
    IF old \in DOMAIN tab /\ tab[old] # CLOSED /\ new \in DOMAIN tab
    THEN [tab EXCEPT ![new] = tab[old]]
    ELSE tab

FreeFds(tab) == {f \in DOMAIN tab : tab[f] = CLOSED}
Lowest(S) == CHOOSE f \in S : \A g \in S : f <= g

VARIABLES
    build,       \* "fork" (HAVE_FORK) or "win" (HAVE_WINDOWS_H): fixed at build time
    pc,          \* where the harness is in myfork / run_process
    i,           \* myfork's loop index over the three pipes
    pipefds,     \* int pipefds[3][2] of myfork (-1: not set)
    fdtab,       \* descriptor table of the harness process
    fdtab0,      \* descriptor table of the harness when myfork was called
    rpRet,       \* value run_process returned to myfork (0 before it returns)
    ret,         \* value myfork returned (0 before it returns)
    childPid,    \* child->pid
    childFd,     \* child->fd[3]
    childHandle, \* child->process_handle
    forkPid,     \* pid of the process fork() created (0: none)
    cpc,         \* where the forked child is in run_process
    cj,          \* the child's loop index j
    cpipes,      \* the child's copy of pipes[][]
    cfdtab,      \* descriptor table of the child process
    cexit,       \* exit status of the child (-1: has not exited)
    chanData,    \* what has been written into each channel, oldest first
    arch,        \* "x86" (_M_IX86) or "amd64" (_M_AMD64): fixed at build time
    target,      \* the target process: its state, main thread and memory
    inj,         \* dll_inject: its position and its local variables
    hist,        \* what has happened to the target so far (history)
    opts,        \* struct opts: opmode, maxmem, maxcpu, seed, ratios, oldargv[0]
    readable,          \* the paths access(path, R_OK) succeeds on
    env,         \* the environment of the harness and of the forked child
    rlim,        \* the resource limits of the harness and of the forked child
    libpath,     \* the child's libpath (lines 300-327)
    calls,       \* the setrlimit and setenv calls made so far (history)
    closeLog     \* the descriptor numbers the harness passed to close()

harnessVars == <<build, pc, i, pipefds, fdtab, fdtab0, rpRet, ret, childPid,
                 childFd, childHandle>>
childVars == <<forkPid, cpc, cj, cpipes, cfdtab, cexit, chanData>>
winVars == <<arch, target, inj, hist>>
setupVars == <<opts, readable, env, rlim, libpath, calls>>

vars == <<harnessVars, childVars, winVars, setupVars, closeLog>>

NoPipes == [c \in 0..2 |-> [e \in 0..1 |-> -1]]

\* the caller's struct child before the call
NoPid == -1
NoChildFd == [c \in 0..2 |-> -1]

(***************************************************************************)
(* State at the call of myfork.  The harness may have any of the           *)
(* descriptor numbers open (its standard streams or not, other children's  *)
(* pipes, ...).                                                            *)
(***************************************************************************)
InitCommon ==
    /\ pc = "pipe"
    /\ i = 0
    /\ pipefds = NoPipes
    /\ fdtab0 = fdtab
    /\ rpRet = 0
    /\ ret = 0
    /\ childPid = NoPid
    /\ childFd = NoChildFd
    /\ childHandle = NoPid
    /\ forkPid = 0
    /\ cpc = "none"
    /\ cj = 0
    /\ cpipes = NoPipes
    /\ cfdtab = [f \in FdNums |-> CLOSED]
    /\ cexit = -1
    /\ chanData = [c \in 0..2 |-> <<>>]

(***************************************************************************)
(* myfork, lines 95-102: one iteration of the pipe loop.                   *)
(* mypipe (HAVE_PIPE, line 129) is pipe(): it fails (-1), or it takes the  *)
(* two lowest free descriptor numbers; which of the two is the read end is *)
(* the system's choice.  A failure returns -1 from myfork at once.         *)
(***************************************************************************)
MyPipeOk(r, w) ==
    /\ pipefds' = [pipefds EXCEPT ![i] = [e \in 0..1 |-> IF e = 0 THEN r ELSE w]]
    /\ fdtab' = [fdtab EXCEPT ![r] = PipeEnd(i, 0), ![w] = PipeEnd(i, 1)]
    /\ i' = i + 1
    /\ pc' = IF i + 1 < 3 THEN "pipe" ELSE "run_process"
    /\ UNCHANGED <<ret>>

MyPipeFail ==
    /\ pc' = "done"
    /\ ret' = -1
    /\ UNCHANGED <<pipefds, fdtab, i>>

MyforkPipe ==
    /\ pc = "pipe"
    /\ \/ MyPipeFail
       \/ /\ Cardinality(FreeFds(fdtab)) >= 2
          /\ LET a == Lowest(FreeFds(fdtab))
                 b == Lowest(FreeFds(fdtab) \ {a})
             IN  MyPipeOk(a, b) \/ (build = "fork" /\ MyPipeOk(b, a))
    /\ UNCHANGED <<build, fdtab0, rpRet, childPid, childFd, childHandle>>
    /\ UNCHANGED <<childVars, winVars, setupVars, closeLog>>

(***************************************************************************)
(* run_process, lines 227-232: fork().  On failure run_process returns -1  *)
(* and myfork (lines 105-110) returns -1 without closing anything.         *)
(***************************************************************************)
ForkFail ==
    /\ build = "fork"
    /\ pc = "run_process"
    /\ rpRet' = -1
    /\ ret' = -1
    /\ pc' = "done"
    /\ UNCHANGED <<build, i, pipefds, fdtab, fdtab0, childPid, childFd,
                   childHandle>>
    /\ UNCHANGED <<childVars, winVars, setupVars, closeLog>>

\* fork() succeeds: the child is a copy of the harness (its descriptor
\* table and its pipes[][]) and starts at the remap loop with j = 2
ForkOk ==
    /\ build = "fork"
    /\ pc = "run_process"
    /\ \E p \in 1..MaxPid : forkPid' = p
    /\ cpc' = "remap"
    /\ cj' = 2
    /\ cpipes' = pipefds
    /\ cfdtab' = fdtab
    /\ env' = [env EXCEPT !.child = env.parent]
    /\ rlim' = [rlim EXCEPT !.child = rlim.parent]
    /\ pc' = "parent_branch"
    /\ UNCHANGED <<build, i, pipefds, fdtab, fdtab0, rpRet, ret, childPid,
                   childFd, childHandle>>
    /\ UNCHANGED <<cexit, chanData, winVars, opts, readable, libpath, calls,
                   closeLog>>

RECURSIVE LogCloses(_, _)
\* the calls close(f) for the numbers f of fdseq in turn: each with what
\* the number referred to when it was passed to close
LogCloses(tab, fdseq) ==
    IF fdseq = <<>> THEN <<>>
    ELSE <<[fd |-> Head(fdseq),
            was |-> IF Head(fdseq) \in DOMAIN tab THEN tab[Head(fdseq)]
                    ELSE CLOSED]>>
         \o LogCloses(Close(tab, Head(fdseq)), Tail(fdseq))

RECURSIVE CloseWriteEnds(_, _, _)
\* for (j = 3; j--; ) close(p[j][1]);  (lines 238-239, and line 115)
CloseWriteEnds(tab, p, j) ==
    IF j < 0 THEN tab ELSE CloseWriteEnds(Close(tab, p[j][1]), p, j - 1)

\* run_process, lines 234-242: the parent closes the write ends and
\* returns the pid
ParentBranch ==
    /\ pc = "parent_branch"
    /\ fdtab' = CloseWriteEnds(fdtab, pipefds, 2)
    /\ closeLog' = closeLog \o LogCloses(fdtab, <<pipefds[2][1], pipefds[1][1],
                                                  pipefds[0][1]>>)
    /\ rpRet' = forkPid
    /\ pc' = "epilogue"
    /\ UNCHANGED <<build, i, pipefds, fdtab0, ret, childPid, childFd,
                   childHandle>>
    /\ UNCHANGED <<childVars, winVars, setupVars>>

\* myfork, lines 105-119 with pid >= 0: store the pid, close the write
\* ends, store the read ends, return 0
MyforkEpilogue ==
    /\ pc = "epilogue"
    /\ rpRet >= 0
    /\ childPid' = rpRet
    /\ fdtab' = CloseWriteEnds(fdtab, pipefds, 2)
    /\ closeLog' = closeLog \o LogCloses(fdtab, <<pipefds[0][1], pipefds[1][1],
                                                  pipefds[2][1]>>)
    /\ childFd' = [c \in 0..2 |-> pipefds[c][0]]
    /\ ret' = 0
    /\ pc' = "done"
    /\ UNCHANGED <<build, i, pipefds, fdtab0, rpRet, childHandle>>
    /\ UNCHANGED <<childVars, winVars, setupVars>>

(***************************************************************************)
(* The child, lines 250-259: one iteration of the remap loop               *)
(***************************************************************************)
\* mutant of RemapStep: the read end is left open
RemapStep_KeepsReadEnd(tab, p, j) ==
    IF p[j][1] # fds[j]
    THEN Close(Dup2(tab, p[j][1], fds[j]), p[j][1])
    ELSE tab

RemapStep(tab, p, j) ==
    LET t1 == Close(tab, p[j][0])
    IN  IF p[j][1] # fds[j]
        THEN Close(Dup2(t1, p[j][1], fds[j]), p[j][1])
        ELSE t1

ChildRemap ==
    /\ cpc = "remap"
    /\ cfdtab' = RemapStep(cfdtab, cpipes, cj)
    /\ cpipes' = [cpipes EXCEPT ![cj][1] = fds[cj]]
    /\ IF cj = 0
       THEN cpc' = "setup" /\ cj' = cj
       ELSE cpc' = "remap" /\ cj' = cj - 1
    /\ UNCHANGED <<cexit, chanData, forkPid>>
    /\ UNCHANGED <<harnessVars, winVars, setupVars, closeLog>>

\* write(fd, msg) in the child: the bytes go into the channel whose write
\* end fd is, and nowhere in the model otherwise
WriteFd(data, tab, fd, msg) ==
    IF tab[fd].end = 1
    THEN [data EXCEPT ![tab[fd].ch] = Append(@, msg)]
    ELSE data

\* line 335, execvp succeeds: the process image is replaced, the
\* descriptors stay as they are
ChildExecOk ==
    /\ cpc = "exec"
    /\ cpc' = "image"
    /\ UNCHANGED <<cj, cpipes, cfdtab, cexit, chanData, forkPid>>
    /\ UNCHANGED <<harnessVars, winVars, setupVars, closeLog>>

\* mutant of ChildExecFail: the child exits with EXIT_SUCCESS
ChildExecFail_ExitsSuccess ==
    /\ cpc = "exec"
    /\ chanData' = WriteFd(chanData, cfdtab, STDERR_FILENO, "perror")
    /\ cexit' = EXIT_SUCCESS
    /\ cfdtab' = [f \in FdNums |-> CLOSED]
    /\ cpc' = "exited"
    /\ UNCHANGED <<cj, cpipes, forkPid>>
    /\ UNCHANGED <<harnessVars, winVars, setupVars, closeLog>>

\* mutant of ChildExecFail: the diagnostic goes to stdout
ChildExecFail_PerrorToStdout ==
    /\ cpc = "exec"
    /\ chanData' = WriteFd(chanData, cfdtab, STDOUT_FILENO, "perror")
    /\ cexit' = EXIT_FAILURE
    /\ cfdtab' = [f \in FdNums |-> CLOSED]
    /\ cpc' = "exited"
    /\ UNCHANGED <<cj, cpipes, forkPid>>
    /\ UNCHANGED <<harnessVars, winVars, setupVars, closeLog>>

\* lines 335-339, execvp fails: perror() writes to stderr, which is
\* descriptor STDERR_FILENO, then exit(EXIT_FAILURE) closes every
\* descriptor of the child
ChildExecFail ==
    /\ cpc = "exec"
    /\ chanData' = WriteFd(chanData, cfdtab, STDERR_FILENO, "perror")
    /\ cexit' = EXIT_FAILURE
    /\ cfdtab' = [f \in FdNums |-> CLOSED]
    /\ cpc' = "exited"
    /\ UNCHANGED <<cj, cpipes, forkPid>>
    /\ UNCHANGED <<harnessVars, winVars, setupVars, closeLog>>


(***************************************************************************)
(* The suspended-create build (HAVE_WINDOWS_H)                             *)
(***************************************************************************)
\* bytes of the target's image at addresses 1..ImageLen
ImageLen == 4
\* instructions the system loader runs in the main thread before it jumps
\* to the entry point; the thread is then at one of -LoaderSteps .. -1
LoaderSteps == 2
\* passes of the polling loop of dll_inject that are followed
MaxPolls == 3

ImageAddrs == 1..ImageLen
EntryPoints == {a \in ImageAddrs : a + 1 \in ImageAddrs}
\* first bytes a program may have at its entry point: push ebp, or the
\* bytes of the self-loop themselves
OrigBytes == {85, 235, 254}
StackTop == ImageLen + 24
RemoteBufs == {StackTop + 8, StackTop + 16}
Kernel32Base == StackTop + 32

\* static uint8_t const wait[] = "\xeb\xfe";  (line 469)
wait == <<235, 254>>

\* sizeof(oep), sizeof(rldlib): DWORD_PTR and void * of the build
WordSize(a) == IF a = "amd64" THEN 8 ELSE 4

\* LoaderRegister (lines 420, 443): Rcx on amd64, Eax on x86
LoaderRegister(a, ctx) == IF a = "amd64" THEN ctx.rcx ELSE ctx.eax

\* LoadLibraryAOffset (lines 421, 446)
LoadLibraryAOffset(a) == IF a = "amd64" THEN 21 ELSE 4

\* ldr[] without its terminating NUL (lines 424-438 and 449-461); the
\* bytes 95 are the placeholder "_" characters
ldr(a) ==
    IF a = "amd64"
    THEN <<85, 72, 137, 229, 72, 131, 236, 32, 72, 131, 228, 240,
           72, 141, 13, 20, 0, 0, 0, 72, 184,
           95, 95, 95, 95, 95, 95, 95, 95,
           255, 208, 72, 133, 192, 117, 1, 204, 201, 195>>
    ELSE <<96, 235, 14, 184, 95, 95, 95, 95, 255, 208, 133, 192,
           117, 1, 204, 97, 195, 232, 237, 255, 255, 255>>

\* SONAME, the lib argument of dll_inject (line 393): "libzzuf.dll"
SONAME == <<108, 105, 98, 122, 122, 117, 102, 46, 100, 108, 108>>

RECURSIVE ShiftRightBytes(_, _)
ShiftRightBytes(v, k) == IF k = 0 THEN v ELSE ShiftRightBytes(v \div 256, k - 1)
\* the n bytes of a pointer in memory, least significant first
LittleEndian(v, n) == [k \in 1..n |-> ShiftRightBytes(v, k - 1) % 256]

\* lines 533-535: memcpy(pl, ldr), memcpy(pl + LoadLibraryAOffset, &rldlib),
\* strcpy(pl + sizeof(ldr) - 1, lib)
ForgePayload(a, rldlib, lib) ==
    LET off == LoadLibraryAOffset(a)
        adr == LittleEndian(rldlib, WordSize(a))
        code == [k \in 1..Len(ldr(a)) |->
                    IF k > off /\ k <= off + WordSize(a)
                    THEN adr[k - off] ELSE ldr(a)[k]]
    IN  code \o lib \o <<0>>

\* size_t pl_len = sizeof(ldr) - 1 + strlen(lib) + 1;  (line 483)
PlLen(a, lib) == Len(ldr(a)) + Len(lib) + 1

(***************************************************************************)
(* get_proc_address, lines 564-627: the first module whose name is         *)
(* kernel32.dll whatever the case, with an export directory in which func  *)
(* is a name, gives base + Functions[Ordinals[i]] for the first such i;    *)
(* 0 (NULL) otherwise.  Tables are indexed from 1 here.  Every             *)
(* ReadProcessMemory is taken to succeed: the tables are those of a mapped *)
(* image of a suspended process.                                           *)
(***************************************************************************)
\* names an export table has at most
MaxNames == 2

\* the terminating byte of a string
NUL == "NUL"

LoadLibraryA == <<"L", "o", "a", "d", "L", "i", "b", "r", "a", "r", "y", "A">>
\* other names of an export table: one that is a prefix of LoadLibraryA,
\* one that LoadLibraryA is a prefix of, and unrelated ones
LoadLibrary == SubSeq(LoadLibraryA, 1, 11)
LoadLibraryAW == LoadLibraryA \o <<"W">>
LoadLibraryW == LoadLibrary \o <<"W">>
ExitProcess == <<"E", "x", "i", "t", "P", "r", "o", "c", "e", "s", "s">>

\* the lower-case form of a module name
ToLower(name) ==
    CASE name = "KERNEL32.DLL" -> "kernel32.dll"
      [] name = "Kernel32.dll" -> "kernel32.dll"
      [] name = "TARGET.EXE" -> "target.exe"
      [] OTHER -> name

\* stricmp(a, b): 0 when the names are equal but for the case
stricmp(a, b) == IF ToLower(a) = ToLower(b) THEN 0 ELSE 1

RECURSIVE NamesFrom(_, _)
\* the bytes in the target at the address of name k: the names of the
\* table lie one behind the other, each with its NUL
NamesFrom(names, k) ==
    IF k > Len(names) THEN <<>>
    ELSE names[k] \o <<NUL>> \o NamesFrom(names, k + 1)

\* ReadProcessMemory(process, base + nameaddr, buf, buflen): the buflen
\* bytes at the address of name k (zero bytes behind the last name)
ReadName(names, k, buflen) ==
    LET bytes == NamesFrom(names, k)
    IN  [x \in 1..buflen |-> IF x <= Len(bytes) THEN bytes[x] ELSE NUL]

RECURSIVE strcmp(_, _, _)
\* strcmp(buf, func) from byte k on: 0 when equal up to the NUL of func
strcmp(buf, func, k) ==
    LET c == IF k <= Len(func) THEN func[k] ELSE NUL
    IN  IF buf[k] # c THEN 1
        ELSE IF c = NUL THEN 0
        ELSE strcmp(buf, func, k + 1)

\* mutant of NameMatches: only the strlen(func) first bytes are compared
NameMatches_Prefix(names, k, func) ==
    SubSeq(ReadName(names, k, Len(func) + 1), 1, Len(func)) = func

\* lines 596-605: buflen = strlen(func) + 1 bytes of the name are read and
\* compared with func
NameMatches(names, k, func) ==
    strcmp(ReadName(names, k, Len(func) + 1), func, 1) = 0

RECURSIVE ScanNames(_, _, _)
\* lines 594-621
ScanNames(m, func, k) ==
    IF k > Len(m.names) THEN 0
    ELSE IF NameMatches(m.names, k, func)
         THEN m.base + m.functions[m.ordinals[k] + 1]
         ELSE ScanNames(m, func, k + 1)

RECURSIVE ScanModules(_, _, _)
\* lines 572-622
ScanModules(mods, func, k) ==
    IF k > Len(mods) THEN 0
    ELSE IF stricmp("kernel32.dll", mods[k].name) # 0 \/ ~mods[k].exportdir
         THEN ScanModules(mods, func, k + 1)
         ELSE LET r == ScanNames(mods[k], func, 1)
              IN  IF r # 0 THEN r ELSE ScanModules(mods, func, k + 1)

get_proc_address(mods, func) == ScanModules(mods, func, 1)

Module(n, b, e, ns, os, fs) ==
    [name |-> n, base |-> b, exportdir |-> e,
     names |-> ns, ordinals |-> os, functions |-> fs]

\* module lists a target may have
ModuleLists ==
    { <<Module("target.exe", 1, FALSE, <<>>, <<>>, <<>>),
        Module("kernel32.dll", Kernel32Base, TRUE,
               <<ExitProcess, LoadLibraryA>>, <<1, 0>>, <<3, 5>>)>>,
      <<Module("target.exe", 1, FALSE, <<>>, <<>>, <<>>),
        Module("kernel32.dll", Kernel32Base, TRUE,
               <<ExitProcess, LoadLibraryW>>, <<0, 1>>, <<3, 5>>)>>,
      <<Module("target.exe", 1, FALSE, <<>>, <<>>, <<>>)>> }

\* the export tables of up to MaxNames names, each name with any ordinal,
\* in a module called kernel32.dll in some case, with or without an export
\* directory
ExportNames == {ExitProcess, LoadLibrary, LoadLibraryA, LoadLibraryAW}
ExportTables ==
    UNION { { Module(n, Kernel32Base, e, ns, os, <<3, 5>>) :
                 ns \in [1..len -> ExportNames], os \in [1..len -> 0..1],
                 n \in {"kernel32.dll", "KERNEL32.DLL"}, e \in BOOLEAN } :
            len \in 0..MaxNames }
ExportLists ==
    { <<Module("target.exe", 1, FALSE, <<>>, <<>>, <<>>), m>> :
         m \in ExportTables }

StackAddrs == {StackTop - 8, StackTop - 4}

\* the target before CreateProcess: what its executable and the system
\* will make of it.  entry: its entry point; image: its code bytes;
\* other: what the register that is not the LoaderRegister holds
NoTarget(e, b1, b2, other, mods, a) ==
    [state |-> "none",        \* none, alive, terminated, crashed
     suspend |-> 0,           \* suspend count of the main thread
     ctx |-> [ip |-> -LoaderSteps, sp |-> StackTop,
              eax |-> IF a = "amd64" THEN other ELSE e,
              rcx |-> IF a = "amd64" THEN e ELSE other],
     entry |-> e,
     mem |-> [x \in ImageAddrs |-> IF x = e THEN b1
                                   ELSE IF x = e + 1 THEN b2 ELSE 144],
     mem0 |-> [x \in ImageAddrs |-> IF x = e THEN b1
                                    ELSE IF x = e + 1 THEN b2 ELSE 144],
     stack |-> [x \in StackAddrs |-> 0],
     rbufAddr |-> 0,          \* address of the remote buffer (0: none)
     rbuf |-> <<>>,           \* its bytes
     modules |-> mods,
     pinfo |-> [hProcess |-> 0, dwProcessId |-> 0],
     libLoaded |-> FALSE,     \* LoadLibraryA(lib) has run in the target
     started |-> FALSE]       \* the thread has run the program's own code

NoInj ==
    [at |-> "none",
     ctxt |-> [ip |-> 0, sp |-> 0, eax |-> 0, rcx |-> 0],
     oep |-> 0, orig_data |-> <<0, 0>>, rldlib |-> 0, rpl |-> 0,
     pl |-> <<>>, res |-> -1]

NoHist ==
    [phases |-> <<>>,           \* phases of the injection, oldest first
     failedAt |-> "",           \* the sub-step of dll_inject that failed
     suspendAtReturn |-> -1,    \* suspend count when dll_inject returned
     sawEntry |-> FALSE,        \* the loop test found ctxt.ip = oep
     polls |-> 0,               \* passes of the polling loop so far
     reachedEntry |-> FALSE,    \* the thread has been at its entry point
     flushed |-> {},            \* regions whose instruction cache was flushed
     launcherResume |-> "none", \* ResumeThread of line 402: none, ok, failed
     launcherTerminated |-> FALSE, \* run_process called TerminateProcess
     resolved |-> [snapshot |-> FALSE, ret |-> -1]]
                                \* what get_proc_address returned (-1: not called)

(***************************************************************************)
(* Options, text, environment and resource limits (fork build).            *)
(* Text is a sequence of characters.                                       *)
(***************************************************************************)
\* longest target path that is tried
MaxPathLen == 3

INT_MAX == 2147483647

\* LT_OBJDIR (line 58)
LT_OBJDIR == <<".", "l", "i", "b", "s", "/">>
\* LIBDIR and, on this build, SONAME are set by the build system; they are
\* used at lines 301-315
LIBDIR == <<"/", "u", "s", "r", "/", "l", "i", "b">>
LIBZZUF_SO == <<"l", "i", "b", "z", "z", "u", "f", ".", "s", "o">>
\* lines 222-223: neither __APPLE__, __osf__ nor __sun
EXTRAINFO == <<>>
PRELOAD == "LD_PRELOAD"

OPMODE_PRELOAD == "OPMODE_PRELOAD"
OPMODE_COPY == "OPMODE_COPY"

ZzufNames == {"ZZUF_DEBUGFD", "ZZUF_SEED", "ZZUF_MINRATIO", "ZZUF_MAXRATIO"}
EnvNames == ZzufNames \cup {PRELOAD}

\* a variable of the environment: unset (getenv returns NULL), or set to
\* a text that may be empty
Unset == [set |-> FALSE, val |-> <<>>]
Val(text) == [set |-> TRUE, val |-> text]

\* setenv(name, value, 1) in process proc
Setenv(e, proc, name, value) == [e EXCEPT ![proc][name] = Val(value)]

Digits == <<"0", "1", "2", "3", "4", "5", "6", "7", "8", "9">>

RECURSIVE Decimal(_)
Decimal(n) ==
    IF n < 10 THEN <<Digits[n + 1]>>
    ELSE Decimal(n \div 10) \o <<Digits[(n % 10) + 1]>>

\* sprintf(buf, "%i", v)  (lines 287, 290)
FormatI(v) == IF v < 0 THEN <<"-">> \o Decimal(0 - v) ELSE Decimal(v)

RECURSIVE StripZeros(_)
StripZeros(t) ==
    IF t # <<>> /\ t[Len(t)] = "0" THEN StripZeros(SubSeq(t, 1, Len(t) - 1))
    ELSE t

\* sprintf(buf, "%g", r) for a ratio r = m / 1000 with 0 <= m: the integer
\* part, then the decimals without trailing zeros, the point only if a
\* decimal is left  (lines 292, 294)
FormatG(m) ==
    LET frac == StripZeros(<<Digits[((m \div 100) % 10) + 1],
                             Digits[((m \div 10) % 10) + 1],
                             Digits[(m % 10) + 1]>>)
    IN  Decimal(m \div 1000) \o (IF frac = <<>> THEN <<>> ELSE <<".">> \o frac)

\* strrchr(s, '/'): the index of the last '/', 0 when there is none
LastSlash(s) ==
    IF \E k \in 1..Len(s) : s[k] = "/"
    THEN CHOOSE k \in 1..Len(s) :
            s[k] = "/" /\ \A m \in (k + 1)..Len(s) : s[m] # "/"
    ELSE 0

\* mutant of ResolveLibpath: the build directory is looked up for a
\* target without '/' too
ResolveLibpath_AlwaysLocal(argv0, files) ==
    LET k == LastSlash(argv0)
        local == SubSeq(argv0, 1, k) \o LT_OBJDIR \o LIBZZUF_SO
    IN  (IF local \in files THEN local
         ELSE LIBDIR \o <<"/">> \o LIBZZUF_SO) \o EXTRAINFO

\* lines 299-318: libpath for the target argv0 = opts->oldargv[0], files
\* being the paths access(path, R_OK) succeeds on
ResolveLibpath(argv0, files) ==
    LET k == LastSlash(argv0)
        local == SubSeq(argv0, 1, k) \o LT_OBJDIR \o LIBZZUF_SO
    IN  (IF k # 0 /\ local \in files THEN local
         ELSE LIBDIR \o <<"/">> \o LIBZZUF_SO) \o EXTRAINFO

\* mutant of MergePreload: the previous value is clobbered
MergePreload_Clobbers(old, lib) == lib

\* lines 321-328: tmp = getenv(PRELOAD); "%s:%s" when tmp && *tmp
MergePreload(old, lib) ==
    IF old.set /\ old.val # <<>> THEN old.val \o <<":">> \o lib ELSE lib

\* an int stored into an rlim_t (unsigned, 8 bytes, least significant
\* first): the conversion extends the sign
rlim_t(v) == LittleEndian(v, 8)
RLIM_INFINITY == [k \in 1..8 |-> 255]

\* opts->maxmem * 1048576 (lines 266-267) as the rlim_t it is stored as.
\* The product is an int product: beyond INT_MAX it is undefined, and the
\* build either keeps the low 32 bits and extends the sign, or multiplies
\* in 64 bits.
MemLimit(maxmem) ==
    IF maxmem <= INT_MAX \div 1048576
    THEN {rlim_t(maxmem * 1048576)}
    ELSE LET q == maxmem * 16
             hi == (q \div 256) % 256
             s == IF hi >= 128 THEN 255 ELSE 0
         IN  { <<0, 0, q % 256, hi, s, s, s, s>>,
               <<0, 0>> \o LittleEndian(q, 6) }

\* opts->maxcpu + 5 (line 277) as the rlim_t it is stored as.  The sum is
\* an int sum: beyond INT_MAX it is undefined, and the build either wraps
\* and extends the sign, or adds in 64 bits.
CpuHardLimit(maxcpu) ==
    IF maxcpu <= INT_MAX - 5
    THEN {rlim_t(maxcpu + 5)}
    ELSE LET k == (maxcpu - INT_MAX) + 4
         IN  { rlim_t(k - INT_MAX - 1),
               [rlim_t(k) EXCEPT ![4] = 128] }

\* mutant of Setrlimit: the limits of the harness are set
Setrlimit_InParent(r, proc, resource, cur, max) ==
    [r EXCEPT !["parent"][resource] = [cur |-> cur, max |-> max]]

\* setrlimit(resource, {cur, max}) in process proc, when it succeeds
Setrlimit(r, proc, resource, cur, max) ==
    [r EXCEPT ![proc][resource] = [cur |-> cur, max |-> max]]

PathChars == {"/", "p"}
Targets == UNION {[1..n -> PathChars] : n \in 1..MaxPathLen}
\* the library next to the target, and the one in the working directory
Candidates(argv0) ==
    { SubSeq(argv0, 1, LastSlash(argv0)) \o LT_OBJDIR \o LIBZZUF_SO,
      LT_OBJDIR \o LIBZZUF_SO }

MaxCpus == {-1, 0, 60, INT_MAX - 5, INT_MAX - 4, INT_MAX}
\* thousandths: 0.004, 1, 1.5
Ratios == {4, 1000, 1500}
MaxMems == {-1, 1, INT_MAX \div 1048576, (INT_MAX \div 1048576) + 1}

Opts(mode, mem, cpu, seed, minr, maxr, argv0) ==
    [opmode |-> mode, maxmem |-> mem, maxcpu |-> cpu, seed |-> seed,
     minratio |-> minr, maxratio |-> maxr, oldargv0 |-> argv0]

\* zzuf -s 12 -r 0.004 ./p
DefaultOpts == Opts(OPMODE_PRELOAD, -1, -1, 12, 4, 4, <<".", "/", "p">>)

\* the harness's own environment: the ZZUF_ variables unset or left by an
\* outer zzuf, the preload variable unset, empty or set
Envs ==
    { [n \in EnvNames |-> IF n = PRELOAD THEN pre ELSE z] :
        z \in {Unset, Val(<<"9">>)},
        pre \in {Unset, Val(<<>>), Val(<<"x">>), Val(<<"x", ":", "y">>)} }

NoEnv == [n \in EnvNames |-> Unset]
Limits == [mem |-> [cur |-> RLIM_INFINITY, max |-> RLIM_INFINITY],
           cpu |-> [cur |-> RLIM_INFINITY, max |-> RLIM_INFINITY]]

InitSetup(o, files, e) ==
    /\ opts = o
    /\ readable = files
    /\ env = [parent |-> e, child |-> NoEnv]
    /\ rlim = [parent |-> Limits, child |-> Limits]
    /\ libpath = <<>>
    /\ calls = [setrlimit |-> <<>>, setenv |-> <<>>]
    /\ closeLog = <<>>

InitFork ==
    /\ build = "fork"
    /\ \E open \in SUBSET FdNums :
          fdtab = [f \in FdNums |-> IF f \in open THEN INHERITED ELSE CLOSED]
    /\ arch = "x86"
    /\ target = NoTarget(1, 85, 85, 2, <<>>, "x86")
    /\ inj = NoInj
    /\ hist = NoHist
    /\ \E mode \in {OPMODE_PRELOAD, OPMODE_COPY} :
          InitSetup([DefaultOpts EXCEPT !.opmode = mode], {}, NoEnv)
    /\ InitCommon

\* the fork build with the harness's standard streams open and nothing
\* else, for the options, targets, files and environments of the bounded
\* sets: every target, set of readable files and preload value; every
\* environment and ratio; every pair of limits
InitOpts ==
    /\ build = "fork"
    /\ fdtab = [f \in FdNums |-> IF f <= 2 THEN INHERITED ELSE CLOSED]
    /\ arch = "x86"
    /\ target = NoTarget(1, 85, 85, 2, <<>>, "x86")
    /\ inj = NoInj
    /\ hist = NoHist
    /\ \E mode \in {OPMODE_PRELOAD, OPMODE_COPY} :
          \/ \E argv0 \in Targets, e \in Envs :
                \E files \in SUBSET Candidates(argv0) :
                   /\ e["ZZUF_SEED"] = Unset
                   /\ InitSetup([DefaultOpts EXCEPT !.opmode = mode,
                                                    !.oldargv0 = argv0],
                                files, e)
          \/ \E e \in Envs, r \in Ratios :
                InitSetup([DefaultOpts EXCEPT !.opmode = mode, !.maxratio = r],
                          {}, e)
          \/ \E mem \in MaxMems, cpu \in MaxCpus :
                InitSetup([DefaultOpts EXCEPT !.opmode = mode, !.maxmem = mem,
                                              !.maxcpu = cpu],
                          {}, NoEnv)
    /\ InitCommon

\* the harness has its standard streams open, and possibly so many other
\* descriptors that the pipes cannot all be created
InitWin ==
    /\ build = "win"
    /\ \E n \in {2, MaxFd - 2} :
          fdtab = [f \in FdNums |-> IF f <= n THEN INHERITED ELSE CLOSED]
    /\ arch \in {"x86", "amd64"}
    /\ \E e \in EntryPoints, b1 \in OrigBytes, b2 \in OrigBytes,
          mods \in ModuleLists :
          \E other \in EntryPoints \ {e} :
             target = NoTarget(e, b1, b2, other, mods, arch)
    /\ inj = NoInj
    /\ hist = NoHist
    /\ InitSetup(DefaultOpts, {}, NoEnv)
    /\ InitCommon

\* the suspended-create build for every export table of the bounded set
InitResolve ==
    /\ build = "win"
    /\ fdtab = [f \in FdNums |-> IF f <= 2 THEN INHERITED ELSE CLOSED]
    /\ arch \in {"x86", "amd64"}
    /\ \E mods \in ExportLists : target = NoTarget(1, 85, 85, 2, mods, arch)
    /\ inj = NoInj
    /\ hist = NoHist
    /\ InitSetup(DefaultOpts, {}, NoEnv)
    /\ InitCommon

(***************************************************************************)
(* The target's main thread.  It runs when the process is alive and the    *)
(* thread's suspend count is 0.                                            *)
(***************************************************************************)
Runnable == target.state = "alive" /\ target.suspend = 0

\* the system loader runs, and at its end jumps to the entry point
TargetLoader ==
    /\ Runnable
    /\ target.ctx.ip < 0
    /\ target' = [target EXCEPT !.ctx.ip =
                     IF @ = -1 THEN target.entry ELSE @ + 1]
    /\ hist' = [hist EXCEPT !.reachedEntry = @ \/ target.ctx.ip = -1]
    /\ UNCHANGED <<harnessVars, childVars, arch, setupVars, closeLog, inj>>

\* the thread executes the two bytes at the entry point: the self-loop
\* "jmp $" leaves it where it is (no step); any other instruction is the
\* program's own code
TargetProgram ==
    /\ Runnable
    /\ target.ctx.ip = target.entry
    /\ <<target.mem[target.entry], target.mem[target.entry + 1]>> # wait
    /\ target' = [target EXCEPT !.started = TRUE, !.ctx.ip = 0]
    /\ UNCHANGED <<harnessVars, childVars, arch, setupVars, closeLog, inj, hist>>

\* the thread executes the remote buffer: the loader code calls the
\* function whose address it holds with the string behind it, then "ret"
\* pops the return address.  Anything but that is a crash.
TargetPayload ==
    /\ Runnable
    /\ target.rbufAddr # 0
    /\ target.ctx.ip = target.rbufAddr
    /\ LET good == target.rbuf =
                      ForgePayload(arch,
                          get_proc_address(target.modules, LoadLibraryA),
                          SONAME)
       IN  IF good /\ target.ctx.sp \in StackAddrs
           THEN target' = [target EXCEPT
                              !.libLoaded = TRUE,
                              !.ctx.ip = target.stack[target.ctx.sp],
                              !.ctx.sp = @ + WordSize(arch)]
           ELSE target' = [target EXCEPT !.state = "crashed"]
    /\ UNCHANGED <<harnessVars, childVars, arch, setupVars, closeLog, inj, hist>>

(***************************************************************************)
(* dll_inject, lines 466-556.  One action per call that can fail; a        *)
(* failed call is "goto _return" with res = -1.                            *)
(***************************************************************************)
InjAt(step) == build = "win" /\ pc = "inject" /\ inj.at = step

\* _return (lines 550-556) after a failure in sub-step step; tg is the
\* target as the failed call leaves it
InjFail(step, tg) ==
    /\ target' = tg
    /\ inj' = [inj EXCEPT !.at = "returned"]
    /\ hist' = [hist EXCEPT !.failedAt = step, !.suspendAtReturn = tg.suspend]

\* the bytes at addr .. addr + Len(bytes) - 1 of the image replaced
Poke(mem, addr, bytes) ==
    [x \in DOMAIN mem |->
        IF x >= addr /\ x < addr + Len(bytes) THEN bytes[x - addr + 1] ELSE mem[x]]

Mapped(addr, n) == \A k \in 0..(n - 1) : addr + k \in ImageAddrs

\* a WriteProcessMemory that fails may have written a part
PartlyPoked(mem, addr, bytes) ==
    {Poke(mem, addr, SubSeq(bytes, 1, k)) : k \in 0..(Len(bytes) - 1)}

\* lines 489-491
InjGetContext ==
    /\ InjAt("GetThreadContext")
    /\ \/ /\ inj' = [inj EXCEPT !.ctxt = target.ctx, !.at = "ReadEntry"]
          /\ UNCHANGED <<target, hist>>
       \/ InjFail("GetThreadContext", target)
    /\ UNCHANGED <<harnessVars, childVars, arch, setupVars, closeLog>>

\* lines 494-496: oep = ctxt.LoaderRegister; save the two bytes at oep
InjReadEntry ==
    /\ InjAt("ReadEntry")
    /\ LET o == LoaderRegister(arch, inj.ctxt)
       IN  \/ /\ Mapped(o, 2)
              /\ inj' = [inj EXCEPT !.oep = o,
                            !.orig_data = <<target.mem[o], target.mem[o + 1]>>,
                            !.at = "WriteWait"]
              /\ UNCHANGED <<target, hist>>
           \/ /\ inj' = [inj EXCEPT !.oep = o, !.at = "returned"]
              /\ hist' = [hist EXCEPT !.failedAt = "ReadEntry",
                                      !.suspendAtReturn = target.suspend]
              /\ UNCHANGED target
    /\ UNCHANGED <<harnessVars, childVars, arch, setupVars, closeLog>>

\* lines 497-498: write the self-loop at oep
InjWriteWait ==
    /\ InjAt("WriteWait")
    /\ \/ /\ Mapped(inj.oep, 2)
          /\ target' = [target EXCEPT !.mem = Poke(@, inj.oep, wait)]
          /\ inj' = [inj EXCEPT !.at = "FlushWait"]
          /\ UNCHANGED hist
       \/ \E m \in PartlyPoked(target.mem, inj.oep, wait) :
             InjFail("WriteWait", [target EXCEPT !.mem = m])
    /\ UNCHANGED <<harnessVars, childVars, arch, setupVars, closeLog>>

\* mutant of InjFlushWait: the thread is resumed before the flush
InjFlushWait_AfterResume ==
    /\ InjAt("FlushWait")
    /\ \/ /\ inj' = [inj EXCEPT !.at = "ResumeThread"]
          /\ hist' = [hist EXCEPT !.flushed = @ \cup {"wait"}]
          /\ target' = [target EXCEPT !.suspend = 0]
       \/ InjFail("FlushWait", [target EXCEPT !.suspend = 0])
    /\ UNCHANGED <<harnessVars, childVars, arch, setupVars, closeLog>>

\* lines 499-500
InjFlushWait ==
    /\ InjAt("FlushWait")
    /\ \/ /\ inj' = [inj EXCEPT !.at = "ResumeThread"]
          /\ hist' = [hist EXCEPT !.flushed = @ \cup {"wait"}]
          /\ UNCHANGED target
       \/ InjFail("FlushWait", target)
    /\ UNCHANGED <<harnessVars, childVars, arch, setupVars, closeLog>>

\* lines 501-502: the thread runs from here on
InjResume ==
    /\ InjAt("ResumeThread")
    /\ \/ /\ target' = [target EXCEPT !.suspend = IF @ > 0 THEN @ - 1 ELSE 0]
          /\ inj' = [inj EXCEPT !.at = "Poll"]
          /\ hist' = [hist EXCEPT !.phases = Append(@, "WaitingForEntry")]
       \/ InjFail("ResumeThread", target)
    /\ UNCHANGED <<harnessVars, childVars, arch, setupVars, closeLog>>

\* mutant of InjPoll: the loop gives up after MaxPolls passes
InjPoll_TimesOut ==
    /\ InjAt("Poll")
    /\ IF inj.oep = inj.ctxt.ip
       THEN /\ inj' = [inj EXCEPT !.at = "SuspendThread"]
            /\ hist' = [hist EXCEPT !.sawEntry = TRUE]
            /\ UNCHANGED target
       ELSE IF hist.polls < MaxPolls
            THEN \/ /\ inj' = [inj EXCEPT !.ctxt = target.ctx]
                    /\ hist' = [hist EXCEPT !.polls = @ + 1]
                    /\ UNCHANGED target
                 \/ InjFail("PollGetThreadContext", target)
            ELSE InjFail("PollTimeout", target)
    /\ UNCHANGED <<harnessVars, childVars, arch, setupVars, closeLog>>

\* lines 505-510: one test of the loop condition and, if it holds, one
\* pass of the body (GetThreadContext, Sleep).  Nothing else ends the
\* loop; the model follows it for MaxPolls passes.
InjPoll ==
    /\ InjAt("Poll")
    /\ IF inj.oep = inj.ctxt.ip
       THEN /\ inj' = [inj EXCEPT !.at = "SuspendThread"]
            /\ hist' = [hist EXCEPT !.sawEntry = TRUE]
            /\ UNCHANGED target
       ELSE /\ hist.polls < MaxPolls
            /\ \/ /\ inj' = [inj EXCEPT !.ctxt = target.ctx]
                  /\ hist' = [hist EXCEPT !.polls = @ + 1]
                  /\ UNCHANGED target
               \/ InjFail("PollGetThreadContext", target)
    /\ UNCHANGED <<harnessVars, childVars, arch, setupVars, closeLog>>

\* mutant of InjSuspend: the thread is taken for suspended, and is not
InjSuspend_NotSuspended ==
    /\ InjAt("SuspendThread")
    /\ \/ /\ inj' = [inj EXCEPT !.at = "Resolve"]
          /\ hist' = [hist EXCEPT !.phases = Append(@, "Hijacked")]
          /\ UNCHANGED target
       \/ InjFail("SuspendThread", target)
    /\ UNCHANGED <<harnessVars, childVars, arch, setupVars, closeLog>>

\* lines 512-513
InjSuspend ==
    /\ InjAt("SuspendThread")
    /\ \/ /\ target' = [target EXCEPT !.suspend = @ + 1]
          /\ inj' = [inj EXCEPT !.at = "Resolve"]
          /\ hist' = [hist EXCEPT !.phases = Append(@, "Hijacked")]
       \/ InjFail("SuspendThread", target)
    /\ UNCHANGED <<harnessVars, childVars, arch, setupVars, closeLog>>

\* lines 515-517; the snapshot of the module list may fail, and then no
\* module is scanned
InjResolve ==
    /\ InjAt("Resolve")
    /\ \E snapshot \in BOOLEAN :
          LET mods == IF snapshot THEN target.modules ELSE <<>>
              r == get_proc_address(mods, LoadLibraryA)
              res == [snapshot |-> snapshot, ret |-> r]
          IN  IF r # 0
              THEN /\ inj' = [inj EXCEPT !.rldlib = r, !.at = "VirtualAllocEx"]
                   /\ hist' = [hist EXCEPT !.resolved = res]
                   /\ UNCHANGED target
              ELSE /\ inj' = [inj EXCEPT !.at = "returned"]
                   /\ hist' = [hist EXCEPT !.failedAt = "Resolve",
                                           !.suspendAtReturn = target.suspend,
                                           !.resolved = res]
                   /\ UNCHANGED target
    /\ UNCHANGED <<harnessVars, childVars, arch, setupVars, closeLog>>

\* lines 519-520: the new region is committed, hence zero-filled
InjAlloc ==
    /\ InjAt("VirtualAllocEx")
    /\ \/ \E a \in RemoteBufs :
             /\ target' = [target EXCEPT !.rbufAddr = a,
                              !.rbuf = [k \in 1..PlLen(arch, SONAME) |-> 0]]
             /\ inj' = [inj EXCEPT !.rpl = a, !.at = "PushReturn"]
             /\ UNCHANGED hist
       \/ InjFail("VirtualAllocEx", target)
    /\ UNCHANGED <<harnessVars, childVars, arch, setupVars, closeLog>>

\* lines 523-525: ctxt.StackPointer -= sizeof(oep); write oep there
InjPushReturn ==
    /\ InjAt("PushReturn")
    /\ LET sp == inj.ctxt.sp - WordSize(arch)
       IN  \/ /\ sp \in StackAddrs
              /\ target' = [target EXCEPT !.stack[sp] = inj.oep]
              /\ inj' = [inj EXCEPT !.ctxt.sp = sp, !.at = "SetThreadContext"]
              /\ UNCHANGED hist
           \/ /\ inj' = [inj EXCEPT !.ctxt.sp = sp, !.at = "returned"]
              /\ hist' = [hist EXCEPT !.failedAt = "PushReturn",
                                      !.suspendAtReturn = target.suspend]
              /\ UNCHANGED target
    /\ UNCHANGED <<harnessVars, childVars, arch, setupVars, closeLog>>

\* lines 526-528: ctxt.InstructionPointer = rpl; SetThreadContext
InjSetContext ==
    /\ InjAt("SetThreadContext")
    /\ LET c == [inj.ctxt EXCEPT !.ip = inj.rpl]
       IN  \/ /\ target' = [target EXCEPT !.ctx = c]
              /\ inj' = [inj EXCEPT !.ctxt = c, !.at = "Forge"]
              /\ UNCHANGED hist
           \/ /\ inj' = [inj EXCEPT !.ctxt = c, !.at = "returned"]
              /\ hist' = [hist EXCEPT !.failedAt = "SetThreadContext",
                                      !.suspendAtReturn = target.suspend]
              /\ UNCHANGED target
    /\ UNCHANGED <<harnessVars, childVars, arch, setupVars, closeLog>>

\* lines 530-535: malloc and forge the payload
InjForge ==
    /\ InjAt("Forge")
    /\ \/ /\ inj' = [inj EXCEPT !.pl = ForgePayload(arch, inj.rldlib, SONAME),
                        !.at = "WritePayload"]
          /\ UNCHANGED <<target, hist>>
       \/ InjFail("Forge", target)
    /\ UNCHANGED <<harnessVars, childVars, arch, setupVars, closeLog>>

\* mutant of InjWritePayload: the write is taken for done without a byte
\* written
InjWritePayload_NotWritten ==
    /\ InjAt("WritePayload")
    /\ \/ /\ inj' = [inj EXCEPT !.at = "Restore"]
          /\ UNCHANGED <<target, hist>>
       \/ InjFail("WritePayload", target)
    /\ UNCHANGED <<harnessVars, childVars, arch, setupVars, closeLog>>

\* lines 537-538: a failed write may have written the code, or nothing
InjWritePayload ==
    /\ InjAt("WritePayload")
    /\ \/ /\ target' = [target EXCEPT !.rbuf = inj.pl]
          /\ inj' = [inj EXCEPT !.at = "Restore"]
          /\ UNCHANGED hist
       \/ \E k \in {0, Len(ldr(arch))} :
             InjFail("WritePayload",
                     [target EXCEPT !.rbuf =
                         [x \in 1..Len(@) |-> IF x <= k THEN inj.pl[x] ELSE @[x]]])
    /\ UNCHANGED <<harnessVars, childVars, arch, setupVars, closeLog>>

\* mutant of InjRestore: only the first of the two bytes is written back
InjRestore_OneByte ==
    /\ InjAt("Restore")
    /\ \/ /\ Mapped(inj.oep, 2)
          /\ target' = [target EXCEPT
                           !.mem = Poke(@, inj.oep, SubSeq(inj.orig_data, 1, 1))]
          /\ inj' = [inj EXCEPT !.at = "FlushPayload"]
          /\ hist' = [hist EXCEPT !.phases = Append(@, "Restored")]
       \/ InjFail("Restore", target)
    /\ UNCHANGED <<harnessVars, childVars, arch, setupVars, closeLog>>

\* lines 540-542: write the saved bytes back at oep
InjRestore ==
    /\ InjAt("Restore")
    /\ \/ /\ Mapped(inj.oep, 2)
          /\ target' = [target EXCEPT !.mem = Poke(@, inj.oep, inj.orig_data)]
          /\ inj' = [inj EXCEPT !.at = "FlushPayload"]
          /\ hist' = [hist EXCEPT !.phases = Append(@, "Restored")]
       \/ \E m \in PartlyPoked(target.mem, inj.oep, inj.orig_data) :
             InjFail("Restore", [target EXCEPT !.mem = m])
    /\ UNCHANGED <<harnessVars, childVars, arch, setupVars, closeLog>>

\* lines 544-545
InjFlushPayload ==
    /\ InjAt("FlushPayload")
    /\ \/ /\ inj' = [inj EXCEPT !.at = "FlushEntry"]
          /\ hist' = [hist EXCEPT !.flushed = @ \cup {"payload"}]
          /\ UNCHANGED target
       \/ InjFail("FlushPayload", target)
    /\ UNCHANGED <<harnessVars, childVars, arch, setupVars, closeLog>>

\* lines 546-556: the last flush, res = 0, return
InjFlushEntry ==
    /\ InjAt("FlushEntry")
    /\ \/ /\ inj' = [inj EXCEPT !.at = "returned", !.res = 0]
          /\ hist' = [hist EXCEPT !.flushed = @ \cup {"entry"},
                                  !.phases = Append(@, "Completed"),
                                  !.suspendAtReturn = target.suspend]
          /\ UNCHANGED target
       \/ InjFail("FlushEntry", target)
    /\ UNCHANGED <<harnessVars, childVars, arch, setupVars, closeLog>>

(***************************************************************************)
(* run_process on the suspended-create build, lines 370-409                *)
(***************************************************************************)
\* what an uninitialised PROCESS_INFORMATION may hold
Garbage == -1..MaxPid

\* lines 372-390, CreateProcess fails: pinfo was never filled in, and its
\* fields are stored into the caller's struct child all the same; then
\* myfork (lines 105-110) returns -1
CreateProcessFail ==
    /\ build = "win"
    /\ pc = "run_process"
    /\ \E h \in Garbage, p \in Garbage : childHandle' = h /\ childPid' = p
    /\ rpRet' = -1
    /\ ret' = -1
    /\ pc' = "done"
    /\ UNCHANGED <<build, i, pipefds, fdtab, fdtab0, childFd>>
    /\ UNCHANGED <<childVars, winVars, setupVars, closeLog>>

\* lines 372-378, CreateProcess succeeds: the process exists, its main
\* thread is suspended; dll_inject is entered (line 393)
CreateProcessOk ==
    /\ build = "win"
    /\ pc = "run_process"
    /\ \E h \in 1..MaxPid, p \in 1..MaxPid :
          /\ h # p
          /\ target' = [target EXCEPT !.state = "alive", !.suspend = 1,
                           !.pinfo = [hProcess |-> h, dwProcessId |-> p]]
          /\ childHandle' = h
          /\ childPid' = p
    /\ inj' = [inj EXCEPT !.at = "GetThreadContext"]
    /\ hist' = [hist EXCEPT !.phases = <<"Created">>]
    /\ pc' = "inject"
    /\ UNCHANGED <<build, i, pipefds, fdtab, fdtab0, rpRet, ret, childFd>>
    /\ UNCHANGED <<childVars, arch, setupVars, closeLog>>

\* mutant of RunProcessInjectFailed: the target is not terminated
RunProcessInjectFailed_NoTerminate ==
    /\ InjAt("returned")
    /\ inj.res < 0
    /\ inj' = [inj EXCEPT !.at = "left"]
    /\ rpRet' = -1
    /\ ret' = -1
    /\ pc' = "done"
    /\ UNCHANGED <<build, i, pipefds, fdtab, fdtab0, childPid, childFd,
                   childHandle>>
    /\ UNCHANGED <<childVars, arch, setupVars, closeLog, target, hist>>

\* lines 394-398: dll_inject failed; terminate the target, return -1, and
\* myfork (lines 105-110) returns -1
RunProcessInjectFailed ==
    /\ InjAt("returned")
    /\ inj.res < 0
    /\ target' = [target EXCEPT !.state = "terminated"]
    /\ hist' = [hist EXCEPT !.launcherTerminated = TRUE]
    /\ inj' = [inj EXCEPT !.at = "left"]
    /\ rpRet' = -1
    /\ ret' = -1
    /\ pc' = "done"
    /\ UNCHANGED <<build, i, pipefds, fdtab, fdtab0, childPid, childFd,
                   childHandle>>
    /\ UNCHANGED <<childVars, arch, setupVars, closeLog>>

\* lines 402-409: dll_inject succeeded; resume the main thread and return
\* the process handle, or terminate the target if the resume fails
RunProcessResume ==
    /\ InjAt("returned")
    /\ inj.res >= 0
    /\ inj' = [inj EXCEPT !.at = "left"]
    /\ \/ /\ target' = [target EXCEPT !.suspend = IF @ > 0 THEN @ - 1 ELSE 0]
          /\ hist' = [hist EXCEPT !.launcherResume = "ok"]
          /\ rpRet' = target.pinfo.hProcess
          /\ pc' = "epilogue"
          /\ UNCHANGED ret
       \/ /\ target' = [target EXCEPT !.state = "terminated"]
          /\ hist' = [hist EXCEPT !.launcherResume = "failed",
                                  !.launcherTerminated = TRUE]
          /\ rpRet' = -1
          /\ ret' = -1
          /\ pc' = "done"
    /\ UNCHANGED <<build, i, pipefds, fdtab, fdtab0, childPid, childFd,
                   childHandle>>
    /\ UNCHANGED <<childVars, arch, setupVars, closeLog>>

(***************************************************************************)
(* The child after the remap loop, lines 262-333                           *)
(***************************************************************************)
\* the child calls setrlimit(resource, {cur, max}): the limits change when
\* the system accepts them, the result is not looked at
ChildSetrlimit(resource, cur, max) ==
    \E ok \in BOOLEAN :
       /\ rlim' = IF ok THEN Setrlimit(rlim, "child", resource, cur, max)
                  ELSE rlim
       /\ calls' = [calls EXCEPT !.setrlimit =
                       Append(@, [proc |-> "child", resource |-> resource,
                                  cur |-> cur, max |-> max, ok |-> ok,
                                  at |-> cpc])]

\* lines 262-270: the memory limit
ChildRlimitMem ==
    /\ cpc = "setup"
    /\ IF opts.maxmem >= 0
       THEN \E v \in MemLimit(opts.maxmem) : ChildSetrlimit("mem", v, v)
       ELSE UNCHANGED <<rlim, calls>>
    /\ cpc' = "rlimit_cpu"
    /\ UNCHANGED <<cj, cpipes, cfdtab, cexit, chanData, forkPid>>
    /\ UNCHANGED <<harnessVars, winVars, opts, readable, env, libpath, closeLog>>

\* lines 272-280: the CPU limit
ChildRlimitCpu ==
    /\ cpc = "rlimit_cpu"
    /\ IF opts.maxcpu >= 0
       THEN \E hard \in CpuHardLimit(opts.maxcpu) :
               ChildSetrlimit("cpu", rlim_t(opts.maxcpu), hard)
       ELSE UNCHANGED <<rlim, calls>>
    /\ cpc' = "setenv"
    /\ UNCHANGED <<cj, cpipes, cfdtab, cexit, chanData, forkPid>>
    /\ UNCHANGED <<harnessVars, winVars, opts, readable, env, libpath, closeLog>>

\* the four variables of lines 283-295 and their values, in the order set
ZzufEnv(p, o) ==
    << <<"ZZUF_DEBUGFD", FormatI(p[0][1])>>,
       <<"ZZUF_SEED", FormatI(o.seed)>>,
       <<"ZZUF_MINRATIO", FormatG(o.minratio)>>,
       <<"ZZUF_MAXRATIO", FormatG(o.maxratio)>> >>

RECURSIVE SetenvAll(_, _, _)
SetenvAll(e, proc, pairs) ==
    IF pairs = <<>> THEN e
    ELSE SetenvAll(Setenv(e, proc, Head(pairs)[1], Head(pairs)[2]), proc,
                   Tail(pairs))

LogSetenv(proc, pairs) ==
    [k \in 1..Len(pairs) |->
        [proc |-> proc, name |-> pairs[k][1], value |-> pairs[k][2]]]

\* mutant of ChildSetenv: the variables are set in preload mode only
ChildSetenv_PreloadOnly ==
    /\ cpc = "setenv"
    /\ IF opts.opmode = OPMODE_PRELOAD
       THEN /\ env' = SetenvAll(env, "child", ZzufEnv(cpipes, opts))
            /\ calls' = [calls EXCEPT !.setenv =
                            @ \o LogSetenv("child", ZzufEnv(cpipes, opts))]
       ELSE UNCHANGED <<env, calls>>
    /\ cpc' = "libpath"
    /\ UNCHANGED <<cj, cpipes, cfdtab, cexit, chanData, forkPid>>
    /\ UNCHANGED <<harnessVars, winVars, opts, readable, rlim, libpath, closeLog>>

\* mutant of ChildSetenv: the debug descriptor is the number pipe() gave
ChildSetenv_PipeNumber ==
    /\ cpc = "setenv"
    /\ LET pairs == [ZzufEnv(cpipes, opts) EXCEPT
                        ![1] = <<"ZZUF_DEBUGFD", FormatI(pipefds[0][1])>>]
       IN  /\ env' = SetenvAll(env, "child", pairs)
           /\ calls' = [calls EXCEPT !.setenv = @ \o LogSetenv("child", pairs)]
    /\ cpc' = "libpath"
    /\ UNCHANGED <<cj, cpipes, cfdtab, cexit, chanData, forkPid>>
    /\ UNCHANGED <<harnessVars, winVars, opts, readable, rlim, libpath, closeLog>>

\* lines 282-295: the ZZUF_ variables, in every mode
ChildSetenv ==
    /\ cpc = "setenv"
    /\ env' = SetenvAll(env, "child", ZzufEnv(cpipes, opts))
    /\ calls' = [calls EXCEPT !.setenv =
                    @ \o LogSetenv("child", ZzufEnv(cpipes, opts))]
    /\ cpc' = "libpath"
    /\ UNCHANGED <<cj, cpipes, cfdtab, cexit, chanData, forkPid>>
    /\ UNCHANGED <<harnessVars, winVars, opts, readable, rlim, libpath, closeLog>>

\* lines 297-318: the path of the library
ChildLibpath ==
    /\ cpc = "libpath"
    /\ libpath' = ResolveLibpath(opts.oldargv0, readable)
    /\ cpc' = "preload"
    /\ UNCHANGED <<cj, cpipes, cfdtab, cexit, chanData, forkPid>>
    /\ UNCHANGED <<harnessVars, winVars, opts, readable, env, rlim, calls, closeLog>>

\* mutant of ChildPreload: the variable is set in every mode
ChildPreload_EveryMode ==
    /\ cpc = "preload"
    /\ libpath' = MergePreload(env.child[PRELOAD], libpath)
    /\ env' = Setenv(env, "child", PRELOAD, libpath')
    /\ calls' = [calls EXCEPT !.setenv =
                    @ \o LogSetenv("child", << <<PRELOAD, libpath'>> >>)]
    /\ cpc' = "exec"
    /\ UNCHANGED <<cj, cpipes, cfdtab, cexit, chanData, forkPid>>
    /\ UNCHANGED <<harnessVars, winVars, opts, readable, rlim, closeLog>>

\* lines 320-333: merge with the previous value of the preload variable,
\* and set the variable in preload mode
ChildPreload ==
    /\ cpc = "preload"
    /\ libpath' = MergePreload(env.child[PRELOAD], libpath)
    /\ IF opts.opmode = OPMODE_PRELOAD
       THEN /\ env' = Setenv(env, "child", PRELOAD, libpath')
            /\ calls' = [calls EXCEPT !.setenv =
                            @ \o LogSetenv("child", << <<PRELOAD, libpath'>> >>)]
       ELSE UNCHANGED <<env, calls>>
    /\ cpc' = "exec"
    /\ UNCHANGED <<cj, cpipes, cfdtab, cexit, chanData, forkPid>>
    /\ UNCHANGED <<harnessVars, winVars, opts, readable, rlim, closeLog>>

\* lines 262-333
ChildSetup ==
    \/ ChildRlimitMem
    \/ ChildRlimitCpu
    \/ ChildSetenv
    \/ ChildLibpath
    \/ ChildPreload

(***************************************************************************)
(* The specifications                                                      *)
(***************************************************************************)
NextFork ==
    \/ MyforkPipe
    \/ ForkFail
    \/ ForkOk
    \/ ParentBranch
    \/ MyforkEpilogue
    \/ ChildRemap
    \/ ChildSetup
    \/ ChildExecOk
    \/ ChildExecFail

SpecFork == InitFork /\ [][NextFork]_vars

\* the same program over the options instead of the descriptor layouts
SpecSetup == InitOpts /\ [][NextFork]_vars

Injector ==
    \/ InjGetContext \/ InjReadEntry \/ InjWriteWait \/ InjFlushWait
    \/ InjResume \/ InjPoll \/ InjSuspend \/ InjResolve \/ InjAlloc
    \/ InjPushReturn \/ InjSetContext \/ InjForge \/ InjWritePayload
    \/ InjRestore \/ InjFlushPayload \/ InjFlushEntry

NextWin ==
    \/ MyforkPipe
    \/ CreateProcessFail
    \/ CreateProcessOk
    \/ InjGetContext
    \/ InjReadEntry
    \/ InjWriteWait
    \/ InjFlushWait
    \/ InjResume
    \/ InjPoll
    \/ InjSuspend
    \/ InjResolve
    \/ InjAlloc
    \/ InjPushReturn
    \/ InjSetContext
    \/ InjForge
    \/ InjWritePayload
    \/ InjRestore
    \/ InjFlushPayload
    \/ InjFlushEntry
    \/ RunProcessInjectFailed
    \/ RunProcessResume
    \/ MyforkEpilogue
    \/ TargetLoader
    \/ TargetProgram
    \/ TargetPayload

SpecWin == InitWin /\ [][NextWin]_vars

\* the same program over the export tables
SpecResolve == InitResolve /\ [][NextWin]_vars

\* the harness is one running thread: a step of dll_inject that can be
\* taken is taken
SpecWinFair == SpecWin /\ WF_vars(Injector)

(***************************************************************************)
(* Claims about the fork build                                             *)
(***************************************************************************)
ChildPastRemap ==
    cpc \in {"setup", "rlimit_cpu", "setenv", "libpath", "preload", "exec",
             "image"}

\* no end of a channel carries the well-known number of a channel with a
\* higher index, which the loop remaps earlier
PlainLayout ==
    \A c \in 0..2 : \A e \in 0..1 : \A k \in 0..2 :
        k > c => pipefds[c][e] # fds[k]

\* C1: after the child's remap loop every well-known descriptor is open and
\* is the write end of its own channel (debug 0, stderr 1, stdout 2),
\* whatever numbers the six pipe ends got.
C1_RemapReachesOwnChannel ==
    ChildPastRemap => \A c \in 0..2 : cfdtab[fds[c]] = PipeEnd(c, 1)

\* C6: when a pipe creation or the fork fails, myfork returns an error, no
\* child exists and the harness has the descriptors open it had before the
\* call.
C6_FailureLeavesNoDescriptor ==
    (pc = "done" /\ ret = -1) => (forkPid = 0 /\ fdtab = fdtab0)

C8_ExecFailureStaysInChild ==
    /\ cpc # "returned"
    /\ cpc = "exited" => cexit = EXIT_FAILURE
    /\ cpc # "exited" => cexit = -1
    /\ (forkPid # 0 /\ pc = "done") => (ret = 0 /\ childPid = forkPid)

C8_Witness == cpc = "exited" /\ pc = "done" /\ ret = 0 /\ childPid = forkPid

Messages == chanData[0] \o chanData[1] \o chanData[2]

\* C9 as stated: when the exec fails nothing is ever written to any of the
\* three channels.
C9_NothingWritten ==
    cpc = "exited" => \A c \in 0..2 : chanData[c] = <<>>

\* C9 as amended: nothing is ever written to the debug channel; all that is
\* ever written is the child's one perror diagnostic, which goes into the
\* channel its STDERR_FILENO is the write end of: the stderr channel when
\* the layout is plain; when the child has exited and myfork
\* has returned, no write end of any channel is open any more.
C9_OnlyPerrorOnStderr ==
    /\ chanData[0] = <<>>
    /\ Messages \in {<<>>, <<"perror">>}
    /\ cpc # "exited" => Messages = <<>>
    /\ (cpc = "exited" /\ PlainLayout) =>
          (chanData[1] = <<"perror">> /\ chanData[2] = <<>>)
    /\ (cpc = "exited" /\ pc = "done") =>
          \A f \in FdNums : fdtab[f].end # 1 /\ cfdtab[f].end # 1

C9_Witness ==
    /\ cpc = "exited" /\ pc = "done" /\ PlainLayout
    /\ chanData[1] = <<"perror">>

(***************************************************************************)
(* Claims about the suspended-create build                                 *)
(***************************************************************************)
Range(seq) == {seq[k] : k \in 1..Len(seq)}
IsPrefix(a, b) == Len(a) <= Len(b) /\ SubSeq(b, 1, Len(a)) = a
Phase == IF hist.phases = <<>> THEN "" ELSE hist.phases[Len(hist.phases)]
FullPhases ==
    <<"Created", "WaitingForEntry", "Hijacked", "Restored", "Completed">>
InjectReturned == inj.at \in {"returned", "left"}
EntryBytes(mem) == <<mem[target.entry], mem[target.entry + 1]>>

\* C2: when dll_inject fails the launcher terminates the target, never
\* calls its own ResumeThread and returns an error; run_process returns a
\* child identity only after dll_inject succeeded and the ResumeThread that
\* follows succeeded.
C2_ResumeOnlyAfterInjection ==
    /\ (InjectReturned /\ inj.res < 0) => hist.launcherResume = "none"
    /\ (inj.at = "left" /\ inj.res < 0) =>
          /\ target.state = "terminated"
          /\ hist.launcherTerminated
          /\ rpRet = -1 /\ ret = -1 /\ pc = "done"
    /\ (build = "win" /\ rpRet > 0) =>
          /\ inj.res = 0
          /\ hist.launcherResume = "ok"
          /\ ~hist.launcherTerminated
          /\ rpRet = target.pinfo.hProcess
    /\ hist.launcherResume = "failed" => (target.state = "terminated" /\ ret = -1)

C2_Witness ==
    /\ inj.at = "left" /\ inj.res < 0 /\ hist.failedAt = "Restore"
    /\ target.state = "terminated" /\ ret = -1

\* C3: a successful dll_inject goes through Created, WaitingForEntry,
\* Hijacked, Restored, Completed in this order and skips none, each phase
\* with the facts that define it; Restored is not reached before the
\* context redirect and the payload write.
C3_PhasesInOrder ==
    /\ IsPrefix(hist.phases, FullPhases)
    /\ inj.res = 0 <=> Phase = "Completed"
    /\ Phase = "Created" => (target.suspend = 1 /\ hist.launcherResume = "none")
    /\ (Phase = "Created" /\ inj.at \in {"GetThreadContext", "ReadEntry", "WriteWait"})
          => target.mem = target.mem0
    /\ (Phase = "WaitingForEntry" /\ inj.at = "Poll") =>
          /\ inj.orig_data = EntryBytes(target.mem0)
          /\ EntryBytes(target.mem) = wait
          /\ target.suspend = 0
    /\ (Phase = "Hijacked" /\ inj.at = "Resolve") =>
          /\ target.suspend = 1
          /\ target.ctx.ip = target.entry
    /\ ("Restored" \in Range(hist.phases) /\ hist.launcherResume = "none") =>
          /\ target.suspend = 1
          /\ inj.rldlib # 0
          /\ inj.rldlib = get_proc_address(target.modules, LoadLibraryA)
          /\ inj.rpl # 0 /\ target.rbufAddr = inj.rpl
          /\ target.stack[target.ctx.sp] = target.entry
          /\ target.ctx.ip = inj.rpl
          /\ target.rbuf = ForgePayload(arch, inj.rldlib, SONAME)
          /\ EntryBytes(target.mem) = EntryBytes(target.mem0)
    /\ Phase = "Completed" => {"payload", "entry"} \subseteq hist.flushed

C3_Witness ==
    /\ inj.at = "returned" /\ inj.res = 0 /\ hist.phases = FullPhases

\* C4: once Restored is reached the two bytes at the entry address are the
\* two bytes read there before the self-loop was written, on either
\* architecture; the read, the patch and the restore are at the entry
\* address, so that the rest of the image is as it was.
C4_EntryBytesRoundTrip ==
    /\ (inj.at \in {"WriteWait", "FlushWait", "ResumeThread"}
          \/ "WaitingForEntry" \in Range(hist.phases)) =>
          inj.oep = target.entry
    /\ (Phase = "WaitingForEntry") =>
          /\ inj.orig_data = EntryBytes(target.mem0)
          /\ target.mem = Poke(target.mem0, target.entry, wait)
    /\ "Restored" \in Range(hist.phases) =>
          /\ inj.orig_data = EntryBytes(target.mem0)
          /\ target.mem = target.mem0

C4_Witness ==
    /\ Phase = "Restored"
    /\ arch = "amd64"
    /\ EntryBytes(target.mem0) = <<85, 235>>
    /\ EntryBytes(target.mem) = <<85, 235>>

\* C5 as stated: whenever dll_inject returns failure the main thread is
\* suspended.
C5_SuspendedOnFailure ==
    (inj.at = "returned" /\ inj.res < 0) => target.suspend > 0

\* C5 as amended: when dll_inject returns failure the main thread is
\* suspended, except when the failed sub-step is a context read inside the
\* polling loop or the suspend itself; then the thread is running.
C5_SuspendedUnlessBetweenResumeAndSuspend ==
    (inj.at = "returned" /\ inj.res < 0) =>
        /\ hist.failedAt # ""
        /\ hist.suspendAtReturn = target.suspend
        /\ hist.failedAt \in {"PollGetThreadContext", "SuspendThread"}
              => target.suspend = 0
        /\ hist.failedAt \notin {"PollGetThreadContext", "SuspendThread"}
              => target.suspend = 1

C5_Witness ==
    /\ inj.at = "returned" /\ inj.res < 0
    /\ hist.failedAt = "PollGetThreadContext"
    /\ target.suspend = 0

\* C10 as stated, its first half: dll_inject does not return from the
\* polling loop unless the thread's instruction pointer came to the entry
\* address.
C10_ReturnsOnlyAfterEntry ==
    (InjectReturned /\ "WaitingForEntry" \in Range(hist.phases))
        => hist.reachedEntry

\* C10 as amended: the polling loop has no timeout; dll_inject leaves it
\* without the instruction pointer at the entry address only when a
\* context read in the loop fails, and otherwise keeps polling; once the
\* instruction pointer is at the entry address, dll_inject returns.
C10_NoTimeout ==
    /\ [](/\ (InjectReturned /\ "WaitingForEntry" \in Range(hist.phases))
               => (hist.reachedEntry \/ hist.failedAt = "PollGetThreadContext")
          /\ hist.sawEntry => hist.reachedEntry
          /\ (inj.at = "Poll" /\ inj.ctxt.ip # inj.oep /\ hist.polls < MaxPolls)
               => ENABLED InjPoll)
    /\ (inj.at = "Poll" /\ target.ctx.ip = inj.oep /\ hist.polls < MaxPolls)
          ~> InjectReturned

C10_Witness ==
    /\ inj.at = "Poll"
    /\ hist.polls = MaxPolls
    /\ ~hist.reachedEntry


\* C11: when process creation or injection fails on the suspended-create
\* build, the caller's struct child (process handle, pid, channel
\* descriptors) is after the failed myfork what it was before the call.
C11_FailureLeavesChildUntouched ==
    (build = "win" /\ pc = "done" /\ ret = -1 /\ rpRet = -1) =>
        /\ childHandle = NoPid
        /\ childPid = NoPid
        /\ childFd = NoChildFd


(***************************************************************************)
(* Claims about the child's limits, environment and library path           *)
(***************************************************************************)
ChildAtExec == cpc \in {"exec", "image"}
InstalledPath == LIBDIR \o <<"/">> \o LIBZZUF_SO
HasSeparator(t) == \E k \in 1..Len(t) : t[k] = "/"
\* <directory of t>/<build-subdir>/<libname> for a target t with a separator
ColocatedPath(t) ==
    LET seps == {k \in 1..Len(t) : t[k] = "/"}
        last == CHOOSE k \in seps : \A m \in seps : m <= k
    IN  SubSeq(t, 1, last) \o LT_OBJDIR \o LIBZZUF_SO
\* the library path P the child resolves to
ResolvedPath ==
    IF HasSeparator(opts.oldargv0) /\ ColocatedPath(opts.oldargv0) \in readable
    THEN ColocatedPath(opts.oldargv0)
    ELSE InstalledPath
SetenvNames == {calls.setenv[k].name : k \in 1..Len(calls.setenv)}

\* C12: in preload mode, when the preload variable has a non-empty value X
\* in the environment the child sets it to X, the delimiter ":" and the
\* resolved library path P, X being a prefix unchanged; when it is unset or
\* empty the child sets it to exactly P.
C12_PreloadMerge ==
    (ChildAtExec /\ opts.opmode = OPMODE_PRELOAD) =>
        LET X == env.parent[PRELOAD]
            v == env.child[PRELOAD]
        IN  /\ v.set
            /\ IF X.set /\ X.val # <<>>
               THEN /\ v.val = X.val \o <<":">> \o ResolvedPath
                    /\ SubSeq(v.val, 1, Len(X.val)) = X.val
               ELSE v.val = ResolvedPath

C12_Witness ==
    /\ cpc = "image" /\ opts.opmode = OPMODE_PRELOAD
    /\ env.parent[PRELOAD] = Val(<<"x", ":", "y">>)
    /\ opts.oldargv0 = <<"p", "/", "p">>
    /\ env.child[PRELOAD].val =
          <<"x", ":", "y", ":", "p", "/">> \o LT_OBJDIR \o LIBZZUF_SO

\* C13: the preload variable is written into the child's environment only
\* in preload mode; in any other mode the child's value of it (set, unset
\* or empty) at exec is the value inherited from the harness.
C13_PreloadOnlyInPreloadMode ==
    /\ PRELOAD \in SetenvNames => opts.opmode = OPMODE_PRELOAD
    /\ (cpc # "none" /\ opts.opmode # OPMODE_PRELOAD) =>
          env.child[PRELOAD] = env.parent[PRELOAD]

C13_Witness ==
    /\ cpc = "image" /\ opts.opmode = OPMODE_COPY
    /\ env.parent[PRELOAD] = Val(<<"x">>)
    /\ env.child[PRELOAD] = Val(<<"x">>)
    /\ libpath # <<>>

\* C14 as stated: the ZZUF_ variables are set in preload mode only; in any
\* other mode the child has them as inherited.
C14_ZzufEnvOnlyInPreloadMode ==
    (ChildAtExec /\ opts.opmode # OPMODE_PRELOAD) =>
        \A n \in ZzufNames : env.child[n] = env.parent[n]

\* C14 as amended: the child sets the four ZZUF_ variables in every mode,
\* over whatever value was inherited: the debug descriptor and the seed in
\* decimal, the ratios in their shortest form; before that step they are
\* as inherited.
C14_ZzufEnvInEveryMode ==
    /\ ChildAtExec =>
          /\ \A n \in ZzufNames : env.child[n].set /\ n \in SetenvNames
          /\ env.child["ZZUF_DEBUGFD"].val = <<"1", "7">>
          /\ opts.seed = 12 => env.child["ZZUF_SEED"].val = <<"1", "2">>
          /\ opts.minratio = 4 =>
                env.child["ZZUF_MINRATIO"].val = <<"0", ".", "0", "0", "4">>
          /\ opts.maxratio = 4 =>
                env.child["ZZUF_MAXRATIO"].val = <<"0", ".", "0", "0", "4">>
          /\ opts.maxratio = 1000 => env.child["ZZUF_MAXRATIO"].val = <<"1">>
          /\ opts.maxratio = 1500 =>
                env.child["ZZUF_MAXRATIO"].val = <<"1", ".", "5">>
    /\ cpc \in {"remap", "setup", "rlimit_cpu", "setenv"} =>
          \A n \in ZzufNames : env.child[n] = env.parent[n]

C14_Witness ==
    /\ cpc = "image" /\ opts.opmode = OPMODE_COPY
    /\ env.parent["ZZUF_SEED"] = Val(<<"9">>)
    /\ env.child["ZZUF_SEED"] = Val(<<"1", "2">>)
    /\ opts.maxratio = 1500

\* C15: a target path without separator resolves to the installed path
\* whatever files are readable; one with a separator resolves to
\* <directory of target>/<build-subdir>/<libname> when that file is
\* readable and to the installed path when it is not.
C15_LibpathResolution ==
    cpc = "preload" =>
        LET t == opts.oldargv0
        IN  /\ ~HasSeparator(t) => libpath = InstalledPath
            /\ (HasSeparator(t) /\ ColocatedPath(t) \in readable) =>
                  libpath = ColocatedPath(t)
            /\ (HasSeparator(t) /\ ColocatedPath(t) \notin readable) =>
                  libpath = InstalledPath

C15_Witness ==
    /\ cpc = "preload"
    /\ opts.oldargv0 = <<"p", "/", "p">>
    /\ readable = {<<"p", "/">> \o LT_OBJDIR \o LIBZZUF_SO}
    /\ libpath = <<"p", "/", ".", "l", "i", "b", "s", "/", "l", "i", "b", "z",
                   "z", "u", "f", ".", "s", "o">>


\* N + 5 seconds as an rlim_t
SecondsPlusGrace(N) ==
    IF N <= INT_MAX - 5 THEN LittleEndian(N + 5, 8)
    ELSE [LittleEndian((N - INT_MAX) + 4, 8) EXCEPT ![4] = 128]
PastCpuLimit == cpc \in {"setenv", "libpath", "preload", "exec", "image"}
CpuCalls ==
    {k \in 1..Len(calls.setrlimit) : calls.setrlimit[k].resource = "cpu"}

\* C16: with a CPU cap of N >= 0 seconds the child asks for the soft limit
\* N and the hard limit N + 5 before the exec; with a negative cap it sets
\* no CPU limit.
C16_CpuLimitSoftNHardNPlus5 ==
    /\ \A k \in CpuCalls :
          /\ opts.maxcpu >= 0
          /\ calls.setrlimit[k].cur = LittleEndian(opts.maxcpu, 8)
          /\ calls.setrlimit[k].max = SecondsPlusGrace(opts.maxcpu)
    /\ (PastCpuLimit /\ opts.maxcpu >= 0) => CpuCalls # {}
    /\ opts.maxcpu < 0 => rlim.child.cpu = rlim.parent.cpu

\* C18: each of the two limits is set at most once per launch, by the
\* child, after the remap loop and before the exec; the limits of the
\* harness stay what they were; a setrlimit that fails leaves the child's
\* limit as inherited and the child goes on to the exec.
C18_LimitsOnceInChildBeforeExec ==
    LET L == calls.setrlimit
    IN  /\ \A k \in 1..Len(L) :
              /\ L[k].proc = "child"
              /\ L[k].at \in {"setup", "rlimit_cpu"}
              /\ rlim.child[L[k].resource] =
                    IF L[k].ok THEN [cur |-> L[k].cur, max |-> L[k].max]
                    ELSE rlim.parent[L[k].resource]
        /\ \A k \in 1..Len(L) : \A m \in 1..Len(L) :
              L[k].resource = L[m].resource => k = m
        /\ cpc \in {"none", "remap"} => L = <<>>
        /\ rlim.parent = Limits
        /\ cpc \in {"setup", "rlimit_cpu", "setenv", "libpath", "preload"} =>
              ENABLED ChildSetup
        /\ cpc = "exec" => (ENABLED ChildExecOk /\ ENABLED ChildExecFail)

C18_Witness ==
    /\ cpc = "image"
    /\ Len(calls.setrlimit) = 2
    /\ ~calls.setrlimit[1].ok
    /\ calls.setrlimit[2].ok
    /\ rlim.child.mem = Limits.mem
    /\ rlim.child.cpu # Limits.cpu

DigitValue(ch) == CHOOSE d \in 0..9 : Digits[d + 1] = ch
RECURSIVE TextValue(_)
\* the number a decimal text denotes
TextValue(t) ==
    IF t = <<>> THEN 0
    ELSE TextValue(SubSeq(t, 1, Len(t) - 1)) * 10 + DigitValue(t[Len(t)])

\* C19: the value of ZZUF_DEBUGFD in the child's environment is the decimal
\* text of DEBUG_FILENO, whatever number pipe() gave the write end of the
\* debug channel.
C19_DebugFdIsWellKnown ==
    cpc \in {"libpath", "preload", "exec", "image"} =>
        LET v == env.child["ZZUF_DEBUGFD"]
        IN  /\ v.set
            /\ v.val # <<>>
            /\ \A k \in 1..Len(v.val) : \E d \in 1..10 : Digits[d] = v.val[k]
            /\ v.val[1] # "0"
            /\ TextValue(v.val) = DEBUG_FILENO

C19_Witness ==
    /\ cpc = "image"
    /\ pipefds[0][1] = 4
    /\ env.child["ZZUF_DEBUGFD"] = Val(<<"1", "7">>)

\* C20: in a successful launch on the fork build the harness closes each
\* write end once: no descriptor number is passed to close() after it was
\* already closed.
C20_EachWriteEndClosedOnce ==
    (build = "fork" /\ pc = "done" /\ ret = 0) =>
        /\ \A c \in 0..2 :
              Cardinality({k \in 1..Len(closeLog) :
                              closeLog[k].fd = pipefds[c][1]}) = 1
        /\ \A k \in 1..Len(closeLog) : closeLog[k].was # CLOSED


(***************************************************************************)
(* Claims about get_proc_address                                           *)
(***************************************************************************)
\* the modules of the target called kernel32.dll, in whatever case
LoaderModules ==
    {k \in 1..Len(target.modules) :
        target.modules[k].name \in {"kernel32.dll", "KERNEL32.DLL"}}
\* the indices of the name table of m whose name is func
Hits(m, func) == {k \in 1..Len(m.names) : m.names[k] = func}
FirstHit(m, func) == CHOOSE k \in Hits(m, func) : \A h \in Hits(m, func) : k <= h

\* C17: get_proc_address returns NULL when the loader module has no export
\* directory or no name of its table is the function name exactly, and
\* otherwise base + Functions[Ordinals[i]] for the first index i whose
\* name is the function name; a name the function name is only a prefix of
\* does not match.
C17_ExactNameFirstIndex ==
    (hist.resolved.snapshot /\ Cardinality(LoaderModules) = 1) =>
        LET m == target.modules[CHOOSE k \in LoaderModules : TRUE]
        IN  IF ~m.exportdir \/ Hits(m, LoadLibraryA) = {}
            THEN /\ hist.resolved.ret = 0
                 /\ hist.failedAt = "Resolve"
            ELSE /\ hist.resolved.ret =
                       m.base + m.functions[
                                   m.ordinals[FirstHit(m, LoadLibraryA)] + 1]
                 /\ inj.rldlib = hist.resolved.ret

C17_Witness ==
    /\ hist.resolved.snapshot
    /\ target.modules[2].name = "KERNEL32.DLL"
    /\ target.modules[2].names = <<LoadLibraryAW, LoadLibraryA>>
    /\ target.modules[2].ordinals = <<0, 1>>
    /\ hist.resolved.ret = Kernel32Base + 5


(***************************************************************************)
(* Claims about the injector and the target's thread running together     *)
(***************************************************************************)
\* the thread is about to execute the remote buffer
ThreadInPayload ==
    target.rbufAddr # 0 /\ target.ctx.ip = target.rbufAddr
\* the buffer holds the loader code with the address adr in its place, then
\* the library name and its NUL
PayloadComplete(adr) ==
    LET code == ldr(arch)
        off == LoadLibraryAOffset(arch)
        n == WordSize(arch)
    IN  /\ Len(target.rbuf) = Len(code) + Len(SONAME) + 1
        /\ \A k \in 1..Len(code) :
              target.rbuf[k] =
                 IF k > off /\ k <= off + n
                 THEN ShiftRightBytes(adr, k - off - 1) % 256
                 ELSE code[k]
        /\ \A k \in 1..Len(SONAME) : target.rbuf[Len(code) + k] = SONAME[k]
        /\ target.rbuf[Len(target.rbuf)] = 0
\* the loop has read a context with the instruction pointer at the entry
\* address, and the thread is not suspended yet
EntryObserved ==
    /\ inj.at \in {"Poll", "SuspendThread"}
    /\ hist.polls > 0
    /\ inj.ctxt.ip = inj.oep

\* C21: in every interleaving of dll_inject and the target's thread, the
\* thread is runnable with its instruction pointer at the remote buffer
\* only when the buffer holds the whole payload with the resolved address,
\* the word at its stack pointer is the entry address and the two bytes at
\* the entry address are the original ones; and from the poll that sees
\* the instruction pointer at the entry address to the suspend, the
\* instruction pointer stays there.
C21_PayloadRunsOnlyWhenComplete ==
    /\ (Runnable /\ ThreadInPayload) =>
          /\ hist.resolved.ret > 0
          /\ inj.rldlib = hist.resolved.ret
          /\ PayloadComplete(hist.resolved.ret)
          /\ target.ctx.sp \in StackAddrs
          /\ target.stack[target.ctx.sp] = target.entry
          /\ EntryBytes(target.mem) = EntryBytes(target.mem0)
    /\ EntryObserved =>
          /\ target.ctx.ip = target.entry
          /\ inj.oep = target.entry

C21_Witness ==
    /\ Runnable /\ ThreadInPayload
    /\ hist.sawEntry
    /\ hist.launcherResume = "ok"
    /\ ~target.libLoaded

=============================================================================
